---- MODULE Spec2Model ----
(***************************************************************************)
(* Model of Code/build_train_xvalidate_ANN.py: main() validates its        *)
(* configuration, globs the per-window-size CSV files, and for each file   *)
(* runs a leave-one-bird-out cross-validation in a process pool,           *)
(* aggregates the folds' metrics, predicts in a second pool, trains a full *)
(* model, and finally writes the sorted cross-window summary.              *)
(*                                                                         *)
(* Strings are sequences of tokens (a token is a literal piece of text or  *)
(* a single digit), so that formatting a path and searching it with the    *)
(* regular expression are computed, not assumed.  Floating-point values    *)
(* are exact fractions <<num, den>> in lowest terms, and <<0, 0>> is NaN.  *)
(***************************************************************************)
EXTENDS Integers, Sequences, FiniteSets, TLC

VARIABLES
    indir, outdir, dtype,   \* arguments of main
    pc,                     \* position of the main process
    error,                  \* the exception that left main, "" if none
    files,                  \* result of glob.glob
    fi,                     \* index in files of the loop variable f
    wdw,                    \* window id extracted from f
    data,                   \* loaded rows: data[i] is the TagID of row i
    birds,                  \* set(data.TagID), in its iteration order
    trainPool,              \* the train/evaluate tasks: arguments and state
    m,                      \* the records returned by the tasks, by position
    predPool,               \* the predict tasks: arguments and state
    preds,                  \* the blocks returned by the tasks, by position
    out_stats,              \* the cross-window table, rows in insertion order
    fs,                     \* output files: path -> content
    nwrites,                \* path -> number of times it was written
    loaded                  \* per started iteration: its window id and rows

vars == <<indir, outdir, dtype, pc, error, files, fi, wdw, data, birds,
          trainPool, m, predPool, preds, out_stats, fs, nwrites, loaded>>

(***************************************************************************)
(* Bounds of the model.                                                    *)
(***************************************************************************)
MaxFiles == 2      \* files in the input directory

Birds == {"A", "B"}

(***************************************************************************)
(* Text.                                                                   *)
(***************************************************************************)
Digits == <<"0", "1", "2", "3", "4", "5", "6", "7", "8", "9">>

IsDigit(c) == \E i \in 1..10 : Digits[i] = c

DigitVal(c) == (CHOOSE i \in 1..10 : Digits[i] = c) - 1

\* str.endswith('/')
EndsWithSlash(s) == Len(s) > 0 /\ s[Len(s)] = "/"

\* the number of digits of s starting at position i (the greedy \d+)
RECURSIVE DigitRun(_, _)
DigitRun(s, i) ==
    IF i <= Len(s) /\ IsDigit(s[i]) THEN 1 + DigitRun(s, i + 1) ELSE 0

\* MatchAt with \d* in place of \d+
MatchAtNoDigits(s, i) ==
    /\ i + 2 <= Len(s)
    /\ s[i] = "/"
    /\ s[i + 1] = dtype
    /\ i + 2 + DigitRun(s, i + 2) <= Len(s)
    /\ s[i + 2 + DigitRun(s, i + 2)] = "_reduced"

\* whether /{dtype}(\d+)_reduced matches s at position i
MatchAt(s, i) ==
    /\ i + 3 <= Len(s)
    /\ s[i] = "/"
    /\ s[i + 1] = dtype
    /\ DigitRun(s, i + 2) >= 1
    /\ i + 2 + DigitRun(s, i + 2) <= Len(s)
    /\ s[i + 2 + DigitRun(s, i + 2)] = "_reduced"

\* re.search(fr"/{dtype}(\d+)_reduced", f): whether there is a match
SearchMatches(s) == \E i \in 1..Len(s) : MatchAt(s, i)

\* .group(1) of the leftmost match
SearchGroup(s) ==
    LET i == CHOOSE j \in 1..Len(s) :
                 MatchAt(s, j) /\ \A k \in 1..(j - 1) : ~MatchAt(s, k)
    IN  SubSeq(s, i + 2, i + 1 + DigitRun(s, i + 2))

\* the names a directory may hold
FileUniverse ==
    { <<"ACC", "5", "_reduced", ".csv">>,
      <<"ACC", "1", "0", "_reduced", ".csv">>,
      <<"ACC", "5", "_reduced", "_v2", ".csv">>,
      <<"ACC", "_reduced", ".csv">>,
      <<"IMM", "5", "_reduced", ".csv">> }

\* glob pattern {dtype}*.csv on a name of the directory
GlobMatch(name) ==
    Len(name) >= 2 /\ name[1] = dtype /\ name[Len(name)] = ".csv"

\* all orders in which a set can be listed
Orders(S) ==
    { s \in [1..Cardinality(S) -> S] : \A x \in S : \E i \in DOMAIN s : s[i] = x }

(***************************************************************************)
(* Output paths, as main formats them.                                     *)
(***************************************************************************)
ModelPath(w, bird) ==
    outdir \o <<dtype, "_">> \o w \o <<"_Keras/", bird, "_withheld.h5">>

FullModelPath(w) ==
    outdir \o <<dtype, "_">> \o w \o <<"_Keras/", "full_model.h5">>

MetricsPath(w) ==
    outdir \o <<dtype, "_">> \o w \o <<"_xval_metrics_keras.csv">>

\* PredictionsPath with the file name of the metrics CSV
PredictionsPathAsMetrics(w) == MetricsPath(w)

PredictionsPath(w) ==
    outdir \o <<dtype, "_">> \o w \o <<"_xval_predictions.csv">>

SummaryPath == outdir \o <<dtype, "_WindowComp_XVal_Metrics_Keras.csv">>

(***************************************************************************)
(* The file system and the I/O log.                                        *)
(***************************************************************************)
WriteFile(f, path, content) ==
    [p \in (DOMAIN f) \cup {path} |-> IF p = path THEN content ELSE f[p]]

\* the write counts after one more write of path
Count(n, path) ==
    [p \in (DOMAIN n) \cup {path} |->
        IF p \in DOMAIN n THEN n[p] + (IF p = path THEN 1 ELSE 0) ELSE 1]

Init ==
    /\ dtype \in {"ACC", "IMM", "GPS"}
    /\ indir \in {<<"in", "/">>, <<"in">>}
    /\ outdir \in {<<"out", "/">>, <<"out">>}
    /\ pc = "start"
    /\ error = ""
    /\ files = <<>>
    /\ fi = 1
    /\ wdw = <<>>
    /\ data = <<>>
    /\ birds = <<>>
    /\ trainPool = <<>>
    /\ m = <<>>
    /\ predPool = <<>>
    /\ preds = <<>>
    /\ out_stats = <<>>
    /\ fs = <<>>
    /\ nwrites = <<>>
    /\ loaded = <<>>

\* ConfigValid without the assertion on outdir
ConfigValidNoOutdir ==
    /\ dtype \in {"ACC", "IMM"}
    /\ EndsWithSlash(indir)

\* the three assert statements at the head of main
ConfigValid ==
    /\ dtype \in {"ACC", "IMM"}
    /\ EndsWithSlash(indir)
    /\ EndsWithSlash(outdir)

Validate ==
    /\ pc = "start"
    /\ IF ConfigValid
       THEN pc' = "glob" /\ error' = error
       ELSE pc' = "crashed" /\ error' = "AssertionError"
    /\ UNCHANGED <<indir, outdir, dtype, files, fi, wdw, data, birds,
                   trainPool, m, predPool, preds, out_stats, fs, nwrites,
                   loaded>>

\* files = glob.glob(f'{indir}{dtype}*.csv'): any directory content, any order
Glob ==
    /\ pc = "glob"
    /\ \E listing \in SUBSET FileUniverse :
         /\ Cardinality(listing) <= MaxFiles
         /\ \E order \in Orders({n \in listing : GlobMatch(n)}) :
              files' = [i \in DOMAIN order |-> indir \o order[i]]
    /\ fi' = 1
    /\ pc' = "loop"
    /\ UNCHANGED <<indir, outdir, dtype, error, wdw, data, birds,
                   trainPool, m, predPool, preds, out_stats, fs, nwrites,
                   loaded>>

\* wdw = re.search(...).group(1); None has no attribute group
ExtractWindow ==
    /\ pc = "loop"
    /\ fi <= Len(files)
    /\ IF SearchMatches(files[fi])
       THEN /\ wdw' = SearchGroup(files[fi])
            /\ pc' = "load"
            /\ error' = error
       ELSE /\ wdw' = wdw
            /\ pc' = "crashed"
            /\ error' = "AttributeError"
    /\ UNCHANGED <<indir, outdir, dtype, files, fi, data, birds,
                   trainPool, m, predPool, preds, out_stats, fs, nwrites,
                   loaded>>

\* the data sets a file may hold, each row given by its TagID: one bird,
\* and two birds of which one has several rows (a file without rows is
\* not among them)
DataSets == { <<"B">>, <<"A", "B", "A">> }

\* BirdsOf reading the first row only
BirdsOfFirstRow(d) == { d[1] }

\* birds = set(data.TagID)
BirdsOf(d) == { d[i] : i \in DOMAIN d }

\* data[data.TagID == bird]
RowsOf(d, bird) == { i \in DOMAIN d : d[i] = bird }

\* the argument tuples of the train/evaluate pool: one per element of birds,
\* in the order in which the set is iterated
TrainArgs(order, w) ==
    [i \in DOMAIN order |-> [bird |-> order[i], path |-> ModelPath(w, order[i])]]

\* data = dd.read_csv(f); birds = set(data.TagID); the pool is created and
\* the tasks are submitted.  m, the predict pool and its results are dead
\* until they are assigned again, and are cleared here.
LoadData ==
    /\ pc = "load"
    /\ \E d \in DataSets :
         \E order \in Orders(BirdsOf(d)) :
            /\ data' = d
            /\ birds' = order
            /\ trainPool' = [i \in DOMAIN TrainArgs(order, wdw) |->
                                [args |-> TrainArgs(order, wdw)[i],
                                 state |-> "queued"]]
            /\ loaded' = Append(loaded, [wdw |-> wdw, data |-> d])
    /\ m' = <<>>
    /\ predPool' = <<>>
    /\ preds' = <<>>
    /\ pc' = "train"
    /\ UNCHANGED <<indir, outdir, dtype, error, files, fi, wdw, out_stats, fs,
                   nwrites>>

Put(f, k, v) == [x \in (DOMAIN f) \cup {k} |-> IF x = k THEN v ELSE f[x]]

\* what a fold may return: five statistics and four raw confusion counts
FoldResults ==
    { [stats |-> <<1, 1, 1, 1, 1>>, conf |-> <<1, 0, 0, 0>>],
      [stats |-> <<0, 1, 0, 0, 1>>, conf |-> <<1, 1, 0, 0>>] }

\* core.build_train_evaluate_dask(data, bird, path, ycol, drop, epochs):
\* trains on the rows of the other birds, saves the model at path and
\* returns the bird's record
TrainTask(i) ==
    /\ pc = "train"
    /\ i \in DOMAIN trainPool
    /\ trainPool[i].state = "queued"
    /\ \E r \in FoldResults :
         m' = Put(m, i, <<trainPool[i].args.bird>> \o r.stats \o r.conf)
    /\ fs' = WriteFile(fs, trainPool[i].args.path,
                       [kind |-> "fold_model", iter |-> fi,
                        heldout |-> {trainPool[i].args.bird},
                        trained |-> (DOMAIN data)
                                    \ RowsOf(data, trainPool[i].args.bird)])
    /\ nwrites' = Count(nwrites, trainPool[i].args.path)
    /\ trainPool' = [trainPool EXCEPT ![i].state = "done"]
    /\ UNCHANGED <<indir, outdir, dtype, pc, error, files, fi, wdw, data,
                   birds, predPool, preds, out_stats, loaded>>

\* a train/evaluate task raises, before or after it has saved its model
TrainTaskFail(i) ==
    /\ pc = "train"
    /\ i \in DOMAIN trainPool
    /\ trainPool[i].state = "queued"
    /\ \/ UNCHANGED <<fs, nwrites>>
       \/ /\ fs' = WriteFile(fs, trainPool[i].args.path,
                             [kind |-> "fold_model", iter |-> fi,
                              heldout |-> {trainPool[i].args.bird},
                              trained |-> (DOMAIN data)
                                    \ RowsOf(data, trainPool[i].args.bird)])
          /\ nwrites' = Count(nwrites, trainPool[i].args.path)
    /\ trainPool' = [trainPool EXCEPT ![i].state = "failed"]
    /\ UNCHANGED <<indir, outdir, dtype, pc, error, files, fi, wdw, data,
                   birds, m, predPool, preds, out_stats, loaded>>

\* StarmapOutcome returning once no task is left, whether it raised or not
StarmapOutcomeLenient(pool) ==
    IF \A i \in DOMAIN pool : pool[i].state # "queued" THEN "return"
    ELSE "block"

\* StarmapOutcome returning with the first task that has returned
StarmapOutcomeEager(pool) ==
    IF \E i \in DOMAIN pool : pool[i].state = "failed" THEN "raise"
    ELSE IF \E i \in DOMAIN pool : pool[i].state = "done" THEN "return"
    ELSE "block"

\* pool.starmap(...): raises as soon as one task has raised, returns once
\* every task has returned, and blocks until then
StarmapOutcome(pool) ==
    IF \E i \in DOMAIN pool : pool[i].state = "failed" THEN "raise"
    ELSE IF \A i \in DOMAIN pool : pool[i].state = "done" THEN "return"
    ELSE "block"

\* m = pool.starmap(...) returns or raises; leaving the with block tears the
\* pool down, so that no queued task runs afterwards
TrainJoin ==
    /\ pc = "train"
    /\ \/ /\ StarmapOutcome(trainPool) = "raise"
          /\ pc' = "crashed"
          /\ error' = "TaskError"
       \/ /\ StarmapOutcome(trainPool) = "return"
          /\ pc' = "aggregate"
          /\ error' = error
    /\ UNCHANGED <<indir, outdir, dtype, files, fi, wdw, data, birds,
                   trainPool, m, predPool, preds, out_stats, fs, nwrites,
                   loaded>>

(***************************************************************************)
(* Floating-point numbers as exact fractions; <<0, 0>> is NaN.  Counts are *)
(* never negative, so a zero divisor only meets a zero dividend.           *)
(***************************************************************************)
NaN == <<0, 0>>

RECURSIVE GCD(_, _)
GCD(a, b) == IF b = 0 THEN a ELSE GCD(b, a % b)

Frac(n, d) == IF d = 0 THEN NaN ELSE <<n \div GCD(n, d), d \div GCD(n, d)>>

FAdd(a, b) ==
    IF a = NaN \/ b = NaN THEN NaN ELSE Frac(a[1] * b[2] + b[1] * a[2], a[2] * b[2])

FDiv(a, b) ==
    IF a = NaN \/ b = NaN \/ b[1] = 0 THEN NaN ELSE Frac(a[1] * b[2], a[2] * b[1])

FTimes100(a) == IF a = NaN THEN NaN ELSE Frac(100 * a[1], a[2])

\* sum over the birds of S of column j of the array arr
RECURSIVE ColSum(_, _, _)
ColSum(arr, S, j) ==
    IF S = {} THEN Frac(0, 1)
    ELSE LET b == CHOOSE x \in S : TRUE
         IN  FAdd(arr[b][j], ColSum(arr, S \ {b}, j))

\* sum of a row of four values
RowSum(row) == FAdd(FAdd(row[1], row[2]), FAdd(row[3], row[4]))

\* Xval_metrics.iloc[:, -4:].to_numpy(): the last four of the ten columns
LastFour(table) ==
    [b \in DOMAIN table |-> [j \in 1..4 |-> Frac(table[b][6 + j], 1)]]

\* (conf_temp / conf_temp.sum(axis=1, keepdims=True)) * 100
RowPercent(arr) ==
    [b \in DOMAIN arr |->
        [j \in 1..4 |-> FTimes100(FDiv(arr[b][j], RowSum(arr[b])))]]

\* the table after Xval_metrics.iloc[:, -4:] = ...
SetLastFour(table, arr) ==
    [b \in DOMAIN table |-> SubSeq(table[b], 1, 6) \o arr[b]]

\* Xval_metrics.iloc[:, 1:6].mean(axis=0): columns 1 to 5, counted from 0
MeanStats(table) ==
    [k \in 1..5 |->
        FDiv(ColSum([b \in DOMAIN table |->
                        [j \in 1..5 |-> Frac(table[b][1 + j], 1)]],
                    DOMAIN table, k),
             Frac(Cardinality(DOMAIN table), 1))]

\* conf_total = conf_temp.sum(axis=0); (conf_total / conf_total.sum()) * 100
ConfTotalPercent(conf_temp) ==
    LET conf_total == [j \in 1..4 |-> ColSum(conf_temp, DOMAIN conf_temp, j)]
    IN  [j \in 1..4 |-> FTimes100(FDiv(conf_total[j], RowSum(conf_total)))]

\* conf_temp as line 114 reads it.  to_numpy() may hand out the frame's own
\* buffer, and the assignment of line 107 may write into that buffer or bind
\* a new one: which of the two happens depends on the column types and the
\* library version, so both are outcomes of the program.
ConfTempAt114(raw, shares) == IF shares THEN RowPercent(raw) ELSE raw

\* out_stats.loc[wdw] = row: replaces the row of that label, else appends
SetLoc(table, label, row) ==
    IF \E i \in DOMAIN table : table[i].index = label
    THEN [i \in DOMAIN table |->
             IF table[i].index = label THEN [index |-> label, row |-> row]
             ELSE table[i]]
    ELSE Append(table, [index |-> label, row |-> row])

\* PredictArgs with the model of the first bird for every task
PredictArgsFirstBird(order, d, w) ==
    [i \in DOMAIN order |->
        [path |-> ModelPath(w, order[1]), rows |-> RowsOf(d, order[i])]]

\* the argument tuples of the predict pool: one per element of birds
PredictArgs(order, d, w) ==
    [i \in DOMAIN order |->
        [path |-> ModelPath(w, order[i]), rows |-> RowsOf(d, order[i])]]

\* lines 103 to 123: the folds' table, its percentages, the metrics CSV, the
\* summary row, and the submission of the predict tasks
Aggregate ==
    /\ pc = "aggregate"
    /\ \E shares \in BOOLEAN :
         LET conf_raw     == LastFour(m)
             Xval_metrics == SetLastFour(m, RowPercent(conf_raw))
             conf_temp    == ConfTempAt114(conf_raw, shares)
         IN  /\ fs' = WriteFile(fs, MetricsPath(wdw),
                                [kind |-> "metrics", iter |-> fi,
                                 rows |-> Xval_metrics])
             /\ out_stats' = SetLoc(out_stats, wdw,
                                    MeanStats(Xval_metrics)
                                    \o ConfTotalPercent(conf_temp))
    /\ nwrites' = Count(nwrites, MetricsPath(wdw))
    /\ predPool' = [i \in DOMAIN PredictArgs(birds, data, wdw) |->
                       [args |-> PredictArgs(birds, data, wdw)[i],
                        state |-> "queued"]]
    /\ pc' = "predict"
    /\ UNCHANGED <<indir, outdir, dtype, error, files, fi, wdw, data, birds,
                   trainPool, m, preds, loaded>>

\* core.predict_dives(path, rows, ycol, drop, True): loads the model saved
\* at path and predicts the given rows
PredictTask(i) ==
    /\ pc = "predict"
    /\ i \in DOMAIN predPool
    /\ predPool[i].state = "queued"
    /\ predPool[i].args.path \in DOMAIN fs
    /\ preds' = Put(preds, i, [rows |-> predPool[i].args.rows,
                               model |-> fs[predPool[i].args.path]])
    /\ predPool' = [predPool EXCEPT ![i].state = "done"]
    /\ UNCHANGED <<indir, outdir, dtype, pc, error, files, fi, wdw, data,
                   birds, trainPool, m, out_stats, fs, nwrites, loaded>>

\* a predict task raises
PredictTaskFail(i) ==
    /\ pc = "predict"
    /\ i \in DOMAIN predPool
    /\ predPool[i].state = "queued"
    /\ predPool' = [predPool EXCEPT ![i].state = "failed"]
    /\ UNCHANGED <<indir, outdir, dtype, pc, error, files, fi, wdw, data,
                   birds, trainPool, m, preds, out_stats, fs, nwrites, loaded>>

\* preds = pool.starmap(...) returns or raises
PredictJoin ==
    /\ pc = "predict"
    /\ \/ /\ StarmapOutcome(predPool) = "raise"
          /\ pc' = "crashed"
          /\ error' = "TaskError"
       \/ /\ StarmapOutcome(predPool) = "return"
          /\ pc' = "concat"
          /\ error' = error
    /\ UNCHANGED <<indir, outdir, dtype, files, fi, wdw, data, birds,
                   trainPool, m, predPool, preds, out_stats, fs, nwrites,
                   loaded>>

\* predictions = pd.concat(preds); predictions.to_csv(...)
WritePredictions ==
    /\ pc = "concat"
    /\ fs' = WriteFile(fs, PredictionsPath(wdw),
                       [kind |-> "predictions", iter |-> fi, blocks |-> preds])
    /\ nwrites' = Count(nwrites, PredictionsPath(wdw))
    /\ pc' = "full"
    /\ UNCHANGED <<indir, outdir, dtype, error, files, fi, wdw, data, birds,
                   trainPool, m, predPool, preds, out_stats, loaded>>

\* lines 130 to 133: the full model is trained on every row and saved; the
\* loop then moves to the next file
TrainFullModel ==
    /\ pc = "full"
    /\ fs' = WriteFile(fs, FullModelPath(wdw),
                       [kind |-> "full_model", iter |-> fi, heldout |-> {},
                        trained |-> DOMAIN data])
    /\ nwrites' = Count(nwrites, FullModelPath(wdw))
    /\ fi' = fi + 1
    /\ pc' = "loop"
    /\ UNCHANGED <<indir, outdir, dtype, error, files, wdw, data, birds,
                   trainPool, m, predPool, preds, out_stats, loaded>>

\* a < b for two index labels, as Python compares str: character by
\* character, a proper prefix first
RECURSIVE StrLess(_, _)
StrLess(a, b) ==
    IF b = <<>> THEN FALSE
    ELSE IF a = <<>> THEN TRUE
    ELSE IF a[1] # b[1] THEN DigitVal(a[1]) < DigitVal(b[1])
    ELSE StrLess(Tail(a), Tail(b))

\* table with row r inserted before the first row of a greater label
RECURSIVE InsertSorted(_, _)
InsertSorted(table, r) ==
    IF table = <<>> THEN <<r>>
    ELSE IF StrLess(r.index, table[1].index) THEN <<r>> \o table
    ELSE <<table[1]>> \o InsertSorted(Tail(table), r)

\* out_stats.sort_index(ascending=True, axis=0)
RECURSIVE SortIndex(_)
SortIndex(table) ==
    IF table = <<>> THEN <<>>
    ELSE InsertSorted(SortIndex(SubSeq(table, 1, Len(table) - 1)),
                      table[Len(table)])

\* lines 135 to 137, after the last file
WriteSummary ==
    /\ pc = "loop"
    /\ fi > Len(files)
    /\ out_stats' = SortIndex(out_stats)
    /\ fs' = WriteFile(fs, SummaryPath,
                       [kind |-> "summary", iter |-> fi,
                        rows |-> SortIndex(out_stats)])
    /\ nwrites' = Count(nwrites, SummaryPath)
    /\ pc' = "done"
    /\ UNCHANGED <<indir, outdir, dtype, error, files, fi, wdw, data, birds,
                   trainPool, m, predPool, preds, loaded>>

MaxTasks == Cardinality(Birds)

Next ==
    \/ Validate
    \/ Glob
    \/ ExtractWindow
    \/ LoadData
    \/ \E i \in 1..MaxTasks : TrainTask(i)
    \/ \E i \in 1..MaxTasks : TrainTaskFail(i)
    \/ TrainJoin
    \/ Aggregate
    \/ \E i \in 1..MaxTasks : PredictTask(i)
    \/ \E i \in 1..MaxTasks : PredictTaskFail(i)
    \/ PredictJoin
    \/ WritePredictions
    \/ TrainFullModel
    \/ WriteSummary

Spec == Init /\ [][Next]_vars

(***************************************************************************)
(* Properties.                                                             *)
(***************************************************************************)
\* the output files of a kind
FilesOfKind(kind) == { p \in DOMAIN fs : fs[p].kind = kind }

\* the output files of a kind that iteration k of the loop wrote last
IterFiles(k, kind) == { p \in FilesOfKind(kind) : fs[p].iter = k }

\* the distinct TagIDs of a data set
Tags(d) == { t \in Birds : \E r \in DOMAIN d : d[r] = t }

InIteration == pc \in {"train", "aggregate", "predict", "concat", "full"}

\* C1: in every iteration of the loop, the folds that are scheduled hold out
\* each distinct TagID of the loaded data set exactly once and nothing else,
\* and so do the records the pool returns.
C1_FoldsPartitionSubjects ==
    InIteration =>
        /\ \A b \in Tags(data) :
              Cardinality({ i \in DOMAIN trainPool :
                              trainPool[i].args.bird = b }) = 1
        /\ \A i \in DOMAIN trainPool : trainPool[i].args.bird \in Tags(data)
        /\ pc # "train" =>
              \A b \in Tags(data) :
                  Cardinality({ i \in DOMAIN m : m[i][1] = b }) = 1

\* the folds have returned for a data set of three rows and two birds
C1_Witness ==
    /\ pc = "aggregate"
    /\ Len(data) = 3
    /\ Cardinality(Tags(data)) = 2

\* the window size a label stands for
RECURSIVE WdwInt(_)
WdwInt(w) ==
    IF w = <<>> THEN 0
    ELSE 10 * WdwInt(SubSeq(w, 1, Len(w) - 1)) + DigitVal(w[Len(w)])

\* C2: the summary CSV lists its rows in ascending order of the numeric
\* window size.
C2_SummarySortedByWindowSize ==
    \A p \in FilesOfKind("summary") :
        \A i, j \in DOMAIN fs[p].rows :
            i < j => WdwInt(fs[p].rows[i].index) <= WdwInt(fs[p].rows[j].index)

\* the sum over the folds of S of raw count j, as returned by the folds
RECURSIVE RawCount(_, _)
RawCount(S, j) ==
    IF S = {} THEN 0
    ELSE LET i == CHOOSE x \in S : TRUE
         IN  m[i][6 + j] + RawCount(S \ {i}, j)

RawTotal ==
    RawCount(DOMAIN m, 1) + RawCount(DOMAIN m, 2)
    + RawCount(DOMAIN m, 3) + RawCount(DOMAIN m, 4)

C4_Invalid ==
    \/ dtype \notin {"ACC", "IMM"}
    \/ indir = <<>> \/ indir[Len(indir)] # "/"
    \/ outdir = <<>> \/ outdir[Len(outdir)] # "/"

\* C4: with an invalid data type, or an input or output directory without a
\* trailing separator, main only ever fails with the assertion error:
\* nothing is globbed, loaded, scheduled or written.
C4_InvalidConfigFailsBeforeIO ==
    C4_Invalid =>
        /\ pc \in {"start", "crashed"}
        /\ pc = "crashed" => error = "AssertionError"
        /\ files = <<>> /\ loaded = <<>> /\ data = <<>>
        /\ trainPool = <<>> /\ predPool = <<>>
        /\ fs = <<>> /\ nwrites = <<>> /\ out_stats = <<>>

\* main has failed on an output directory without separator alone
C4_Witness ==
    /\ pc = "crashed"
    /\ error = "AssertionError"
    /\ dtype = "ACC"
    /\ indir[Len(indir)] = "/"
    /\ outdir[Len(outdir)] # "/"

C5_WindowsDistinct ==
    \A i, j \in DOMAIN loaded : i # j => loaded[i].wdw # loaded[j].wdw

\* C5: a run that ends without failure over files of pairwise distinct
\* window sizes leaves, for each file, one per-fold model per bird, one
\* metrics CSV with one row per bird, one predictions CSV with one block per
\* bird covering every row, and one full model; the summary CSV has one row
\* per window size, is written once, and exists only when the run is over.
C5_EndToEnd ==
    /\ FilesOfKind("summary") # {} => pc = "done"
    /\ (pc = "done" /\ C5_WindowsDistinct) =>
        /\ Len(loaded) = Len(files)
        /\ \A k \in DOMAIN loaded :
              LET tags == Tags(loaded[k].data)
              IN  /\ Cardinality(IterFiles(k, "fold_model")) = Cardinality(tags)
                  /\ { fs[p].heldout : p \in IterFiles(k, "fold_model") }
                        = { {b} : b \in tags }
                  /\ Cardinality(IterFiles(k, "metrics")) = 1
                  /\ \A p \in IterFiles(k, "metrics") :
                        Cardinality(DOMAIN fs[p].rows) = Cardinality(tags)
                  /\ Cardinality(IterFiles(k, "predictions")) = 1
                  /\ \A p \in IterFiles(k, "predictions") :
                        /\ Cardinality(DOMAIN fs[p].blocks) = Cardinality(tags)
                        /\ UNION { fs[p].blocks[i].rows : i \in DOMAIN fs[p].blocks }
                              = DOMAIN loaded[k].data
                  /\ Cardinality(IterFiles(k, "full_model")) = 1
        /\ \A p \in DOMAIN fs :
              fs[p].kind = "summary" \/ fs[p].iter \in DOMAIN loaded
        /\ Cardinality(FilesOfKind("summary")) = 1
        /\ \A p \in FilesOfKind("summary") :
              /\ nwrites[p] = 1
              /\ Len(fs[p].rows) = Len(loaded)
              /\ { fs[p].rows[i].index : i \in DOMAIN fs[p].rows }
                    = { loaded[k].wdw : k \in DOMAIN loaded }

\* a run over two files of different window sizes has ended, one of the
\* files holding two birds
C5_Witness ==
    /\ pc = "done"
    /\ Len(loaded) = 2
    /\ C5_WindowsDistinct
    /\ \E k \in DOMAIN loaded : Cardinality(Tags(loaded[k].data)) = 2

FailedIn(pool) == \E i \in DOMAIN pool : pool[i].state = "failed"

\* C6, as claimed: after the failure of a task of either pool, the iteration
\* has left no metrics CSV, no predictions CSV and no full model, and no
\* summary is written.
C6_NoPartialResult ==
    (pc = "crashed" /\ error = "TaskError") =>
        /\ IterFiles(fi, "metrics") = {}
        /\ IterFiles(fi, "predictions") = {}
        /\ IterFiles(fi, "full_model") = {}
        /\ FilesOfKind("summary") = {}

\* C6, amended: a task failure is the only cause of the task error; once a
\* train/evaluate task has failed main gets no further than the pool, and
\* the iteration leaves no metrics CSV, predictions CSV or full model; once
\* a predict task has failed main gets no further than the pool, the
\* iteration's metrics CSV is already written, and it leaves no predictions
\* CSV or full model; in both cases no summary CSV is written.
C6_TaskFailureForfeits ==
    /\ (pc = "crashed" /\ error = "TaskError") =>
          (FailedIn(trainPool) \/ FailedIn(predPool))
    /\ FailedIn(trainPool) =>
          /\ pc \in {"train", "crashed"}
          /\ IterFiles(fi, "metrics") = {}
          /\ IterFiles(fi, "predictions") = {}
          /\ IterFiles(fi, "full_model") = {}
          /\ FilesOfKind("summary") = {}
    /\ FailedIn(predPool) =>
          /\ pc \in {"predict", "crashed"}
          /\ IterFiles(fi, "metrics") # {}
          /\ IterFiles(fi, "predictions") = {}
          /\ IterFiles(fi, "full_model") = {}
          /\ FilesOfKind("summary") = {}

\* main has failed on a predict task after another predict task returned
C6_Witness ==
    /\ pc = "crashed"
    /\ error = "TaskError"
    /\ FailedIn(predPool)
    /\ \E i \in DOMAIN predPool : predPool[i].state = "done"

\* C7: no model file, per-fold or full, is written more than once.
C7_ModelsWrittenOnce ==
    \A p \in FilesOfKind("fold_model") \cup FilesOfKind("full_model") :
        nwrites[p] <= 1

\* the number of writes of the files of S
RECURSIVE Writes(_)
Writes(S) ==
    IF S = {} THEN 0
    ELSE LET p == CHOOSE x \in S : TRUE
         IN  nwrites[p] + Writes(S \ {p})

\* C8: aggregation and everything after it find every train/evaluate task
\* of the iteration returned; predict tasks exist only once the iteration's
\* metrics CSV and summary row are there; the predictions CSV and the
\* full-model step find every predict task returned; and an iteration
\* starts only after as many full models were saved as there were
\* iterations before it.
C8_PhaseSynchronous ==
    LET cur == Len(loaded)
    IN  /\ (pc \in {"aggregate", "predict", "concat", "full"}
            \/ IterFiles(cur, "metrics") # {}) =>
              /\ \A i \in DOMAIN trainPool : trainPool[i].state = "done"
              /\ DOMAIN m = DOMAIN trainPool
        /\ predPool # <<>> =>
              /\ IterFiles(cur, "metrics") # {}
              /\ \E i \in DOMAIN out_stats :
                    out_stats[i].index = loaded[cur].wdw
        /\ (pc \in {"concat", "full"}
            \/ IterFiles(cur, "predictions") # {}
            \/ IterFiles(cur, "full_model") # {}) =>
              /\ predPool # <<>>
              /\ \A i \in DOMAIN predPool : predPool[i].state = "done"
              /\ DOMAIN preds = DOMAIN predPool
        /\ IterFiles(cur, "full_model") # {} => IterFiles(cur, "predictions") # {}
        /\ pc \notin {"done", "crashed"} =>
              /\ Writes(FilesOfKind("full_model")) = fi - 1
              /\ cur = IF InIteration THEN fi ELSE fi - 1
        /\ \A p \in DOMAIN fs : fs[p].kind # "summary" => fs[p].iter <= cur

\* the second iteration is about to train its full model, two predict tasks
\* having returned
C8_Witness ==
    /\ pc = "full"
    /\ fi = 2
    /\ Len(predPool) = 2

\* C9: every predict task is handed exactly the rows of its bird and the
\* path at which the fold that held this bird out saved its model; the block
\* it returns is made of those rows by that fold's model of the same
\* iteration; and the predictions CSV holds the returned blocks, one per
\* bird.
C9_PredictionsUseOwnFold ==
    /\ pc \in {"predict", "concat", "full"} =>
          /\ DOMAIN predPool = DOMAIN trainPool
          /\ \A i \in DOMAIN predPool :
                LET b == trainPool[i].args.bird
                    own == { r \in DOMAIN data : data[r] = b }
                IN  /\ predPool[i].args.rows = own
                    /\ predPool[i].args.path = trainPool[i].args.path
                    /\ i \in DOMAIN preds =>
                          /\ preds[i].rows = own
                          /\ preds[i].model.kind = "fold_model"
                          /\ preds[i].model.iter = fi
                          /\ preds[i].model.heldout = {b}
                          /\ preds[i].model.trained = (DOMAIN data) \ own
    /\ pc = "full" =>
          \A p \in IterFiles(fi, "predictions") :
              /\ fs[p].blocks = preds
              /\ \A b \in Tags(data) :
                    Cardinality({ i \in DOMAIN fs[p].blocks :
                        fs[p].blocks[i].rows
                            = { r \in DOMAIN data : data[r] = b } }) = 1

\* the predictions CSV of a second iteration with two birds is written
C9_Witness ==
    /\ pc = "full"
    /\ fi = 2
    /\ Cardinality(Tags(data)) = 2
    /\ IterFiles(fi, "predictions") # {}

\* whether the text f holds '/', the data type, one or more digits and
\* '_reduced' in a row
C10_HasToken(f) ==
    \E i \in 1..Len(f) : \E k \in 1..Len(f) :
        /\ i + 2 + k <= Len(f)
        /\ f[i] = "/"
        /\ f[i + 1] = dtype
        /\ \A j \in (i + 2)..(i + 1 + k) :
              f[j] \in {"0", "1", "2", "3", "4", "5", "6", "7", "8", "9"}
        /\ f[i + 2 + k] = "_reduced"

\* C10: a file without the window-size token is never loaded and never
\* passed over; main fails on it with the attribute error before loading
\* it, with nothing written for it or a later file, and no summary CSV is
\* ever written in such a run.
C10_MissingTokenIsFatal ==
    /\ InIteration \/ pc = "load" => C10_HasToken(files[fi])
    /\ \A k \in DOMAIN files : k < fi => C10_HasToken(files[k])
    /\ (pc = "crashed" /\ error = "AttributeError") =>
          /\ fi \in DOMAIN files
          /\ ~C10_HasToken(files[fi])
          /\ Len(loaded) = fi - 1
          /\ \A p \in DOMAIN fs : fs[p].kind # "summary" /\ fs[p].iter < fi
    /\ FilesOfKind("summary") # {} =>
          \A k \in DOMAIN files : C10_HasToken(files[k])

\* main has failed on the second file after processing the first
C10_Witness ==
    /\ pc = "crashed"
    /\ error = "AttributeError"
    /\ fi = 2
    /\ IterFiles(1, "full_model") # {}

====
